---------------------------- MODULE Spec2Model ----------------------------
(***************************************************************************)
(* SEGYRecover: the main window workflow (load image, parameters, begin    *)
(* digitization, restart), the parameter entry points (the ParameterDialog *)
(* of workflow.input_parameters and ParametersTab.save_parameters), the    *)
(* progress status bar with its cancel flag, and the run of digitize_segy  *)
(* through its stages.                                                     *)
(***************************************************************************)
EXTENDS Integers, Sequences, FiniteSets, TLC

(***************************************************************************)
(* Bounds of the model.                                                    *)
(***************************************************************************)
\* work units (rows / traces) a stage processes between start() and finish()
MaxUnits == 2
\* digitization runs started in one behaviour
MaxRuns == 2
\* parametersSet emissions of the parameters tab in one behaviour
MaxEmits == 2
\* digitize_segy activations that can wait on the call stack at once
MaxDepth == 1
\* length of a CDP list, and its largest CDP number
MaxCdps == 3
MaxCdp == 3

None == "None"

\* image files the user can pick in the file dialog (their base names)
Images == {"lineA", "lineB"}

(***************************************************************************)
(* Text of a QLineEdit and its conversion: int(text) and f"{value}".       *)
(* A text is a sequence of characters over the digits and the sign.        *)
(***************************************************************************)
DigitChars == <<"0", "1", "2", "3", "4", "5", "6", "7", "8", "9">>

IsDigit(c) == \E i \in 1..10 : DigitChars[i] = c

DigitVal(c) == (CHOOSE i \in 1..10 : DigitChars[i] = c) - 1

RECURSIVE NatVal(_)
NatVal(s) ==
    IF s = <<>> THEN 0
    ELSE 10 * NatVal(SubSeq(s, 1, Len(s) - 1)) + DigitVal(s[Len(s)])

\* int(text) succeeds: an optional sign followed by at least one digit
IsIntText(t) ==
    /\ Len(t) >= 1
    /\ LET body == IF t[1] = "-" THEN Tail(t) ELSE t
       IN  Len(body) >= 1 /\ \A i \in 1..Len(body) : IsDigit(body[i])

\* the value of int(text) when it succeeds
ParseInt(t) ==
    IF t[1] = "-" THEN 0 - NatVal(Tail(t)) ELSE NatVal(t)

RECURSIVE NatStr(_)
NatStr(n) ==
    IF n < 10 THEN <<DigitChars[n + 1]>>
    ELSE NatStr(n \div 10) \o <<DigitChars[(n % 10) + 1]>>

\* f"{value}" for an int
Str(n) == IF n < 0 THEN <<"-">> \o NatStr(0 - n) ELSE NatStr(n)

(***************************************************************************)
(* The 17 parameters, in the order the code builds param_values.           *)
(***************************************************************************)
ParamKeys ==
    <<"Trace_P1", "TWT_P1", "Trace_P2", "TWT_P2", "Trace_P3", "TWT_P3", "DT",
      "F1", "F2", "F3", "F4", "TLT", "HLT", "HE", "BDB", "BDE", "BFT">>

KeySet == {ParamKeys[i] : i \in 1..Len(ParamKeys)}

\* default_params of input_parameters (texts)
default_params ==
    [Trace_P1 |-> <<"0">>, TWT_P1 |-> <<"0">>,
     Trace_P2 |-> <<"0">>, TWT_P2 |-> <<"0">>,
     Trace_P3 |-> <<"0">>, TWT_P3 |-> <<"0">>,
     DT |-> <<"1">>,
     F1 |-> <<"1", "0">>, F2 |-> <<"1", "2">>, F3 |-> <<"7", "0">>, F4 |-> <<"8", "0">>,
     TLT |-> <<"1">>, HLT |-> <<"1">>, HE |-> <<"5", "0">>,
     BDB |-> <<"5">>, BDE |-> <<"1", "0", "0">>, BFT |-> <<"8", "0">>]

\* default_params of ParametersTab.load_parameters (HLT differs)
tab_default_params == [default_params EXCEPT !.HLT = <<"5">>]


(***************************************************************************)
(* Parameter sets the user types into the 17 fields.  BaseValues is a      *)
(* valid set; every other candidate overrides some of its fields.          *)
(***************************************************************************)
BaseValues ==
    [Trace_P1 |-> 0, TWT_P1 |-> 0, Trace_P2 |-> 3, TWT_P2 |-> 0,
     Trace_P3 |-> 0, TWT_P3 |-> 4, DT |-> 2,
     F1 |-> 10, F2 |-> 12, F3 |-> 70, F4 |-> 80,
     TLT |-> 1, HLT |-> 1, HE |-> 50, BDB |-> 5, BDE |-> 100, BFT |-> 80]

RECURSIVE Override(_, _)
Override(pv, ovs) ==
    IF ovs = <<>> THEN pv
    ELSE Override([pv EXCEPT ![ovs[1][1]] = ovs[1][2]], Tail(ovs))

TextsOf(pv) == [k \in KeySet |-> Str(pv[k])]

\* accepted by the code, differing in the time grid they give
ValidOverrides ==
    { <<>>,
      << <<"TWT_P3", 5>> >>,
      << <<"TWT_P1", 1>>, <<"DT", 1>> >> }

\* accepted by the code, on the edge of a validated inequality
EdgeOverrides ==
    { << <<"BDB", 0>> >>,
      << <<"BFT", 0>> >>,
      << <<"BFT", 100>> >>,
      << <<"F1", 1>>, <<"F2", 2>>, <<"F3", 3>>, <<"F4", 4>> >> }

\* each violates one or more of the validated inequalities
InvalidOverrides ==
    { << <<"DT", 0>> >>,
      << <<"DT", -1>> >>,
      << <<"F4", 70>> >>,
      << <<"F3", 12>> >>,
      << <<"F2", 10>> >>,
      << <<"F1", 0>> >>,
      << <<"F1", -5>> >>,
      << <<"TWT_P3", 0>> >>,
      << <<"TWT_P1", 9>> >>,
      << <<"BDB", 50>>, <<"BDE", 10>> >>,
      << <<"BDB", 100>> >>,
      << <<"BDB", -1>> >>,
      << <<"BFT", -1>> >>,
      << <<"BFT", 101>> >>,
      << <<"TLT", 0>> >>,
      << <<"HLT", 0>> >>,
      << <<"HE", 0>> >>,
      << <<"Trace_P1", -1>> >>,
      << <<"Trace_P2", -1>> >>,
      << <<"Trace_P3", -1>> >>,
      << <<"TLT", 0>>, <<"HLT", 0>> >>,
      << <<"F1", 0>>, <<"BDB", -1>> >> }

\* a field left empty, or holding only a sign: int() raises ValueError
BadTexts ==
    { [TextsOf(BaseValues) EXCEPT !.DT = <<>>],
      [TextsOf(BaseValues) EXCEPT !.BDE = <<"-">>] }

\* what the user may leave in the fields of the main window's dialog
WorkflowInputs ==
    {TextsOf(Override(BaseValues, o)) : o \in ValidOverrides}
        \cup {TextsOf(Override(BaseValues, o)) :
                o \in { << <<"BDB", 50>>, <<"BDE", 10>> >>,
                        << <<"TLT", 0>> >>, << <<"DT", 0>> >> }}
        \cup {[TextsOf(BaseValues) EXCEPT !.DT = <<>>]}

\* what the user may leave in the fields when the parameter entry points
\* are examined on their own
AllInputs ==
    {TextsOf(Override(BaseValues, o)) :
        o \in {<<>>} \cup EdgeOverrides \cup InvalidOverrides}
        \cup BadTexts

(***************************************************************************)
(* Validation of the parameter relationships.                              *)
(***************************************************************************)
\* int(dialog.X.text()) for the 17 fields succeeds
AllInt(fields) == \A k \in KeySet : IsIntText(fields[k])

\* param_values
ParamValues(fields) == [k \in KeySet |-> ParseInt(fields[k])]

\* ParameterDialog.DETECTION_PARAMS: the fields of the detection group and
\* the labels the form shows beside them
DETECTION_PARAMS ==
    << <<"TLT", "Traceline Thickness">>,
       <<"HLT", "Timeline Thickness">>,
       <<"HE",  "Horizontal Erode">>,
       <<"BDB", "Baseline Detection Begining">>,
       <<"BDE", "Baseline Detection End">>,
       <<"BFT", "Baseline Filter Threshold">> >>

\* ParametersTab.DETECTION_PARAMS
tab_DETECTION_PARAMS ==
    << <<"TLT", "Traceline Thickness">>,
       <<"HLT", "Timeline Thickness">>,
       <<"HE",  "Horizontal Erode">>,
       <<"BDB", "Baseline Detection Beginning">>,
       <<"BDE", "Baseline Detection End">>,
       <<"BFT", "Baseline Filter Threshold">> >>

\* validations with the comparison of BDB and BDE turned round (C6 is
\* checked against it)
validationsBandReversed(pv) ==
    << [cond |-> pv.DT > 0,          msg |-> "Sample rate must be > 0"],
       [cond |-> pv.F4 > pv.F3,      msg |-> "F4 must be > F3"],
       [cond |-> pv.F3 > pv.F2,      msg |-> "F3 must be > F2"],
       [cond |-> pv.F2 > pv.F1,      msg |-> "F2 must be > F1"],
       [cond |-> pv.F1 > 0,          msg |-> "F1 must be > 0"],
       [cond |-> pv.TWT_P3 > pv.TWT_P1, msg |-> "TWT_P3 must be > TWT_P1"],
       [cond |-> pv.BDB > pv.BDE,    msg |-> "BDB must be < BDE"],
       [cond |-> pv.BDB >= 0,        msg |-> "BDB must be >= 0"],
       [cond |-> pv.BFT >= 0 /\ pv.BFT <= 100,
                                     msg |-> "BFT must be between 0 and 100"],
       [cond |-> pv.TLT > 0,         msg |-> "Timeline thickness must be > 0"],
       [cond |-> pv.HLT > 0,         msg |-> "Horizontal line thickness must be > 0"],
       [cond |-> pv.HE > 0,          msg |-> "Horizontal erosion must be > 0"],
       [cond |-> pv.Trace_P1 >= 0,   msg |-> "Trace_P1 must be >= 0"],
       [cond |-> pv.Trace_P2 >= 0,   msg |-> "Trace_P2 must be >= 0"],
       [cond |-> pv.Trace_P3 >= 0,   msg |-> "Trace_P3 must be >= 0"] >>

\* the validations list of workflow.input_parameters
validations(pv) ==
    << [cond |-> pv.DT > 0,          msg |-> "Sample rate must be > 0"],
       [cond |-> pv.F4 > pv.F3,      msg |-> "F4 must be > F3"],
       [cond |-> pv.F3 > pv.F2,      msg |-> "F3 must be > F2"],
       [cond |-> pv.F2 > pv.F1,      msg |-> "F2 must be > F1"],
       [cond |-> pv.F1 > 0,          msg |-> "F1 must be > 0"],
       [cond |-> pv.TWT_P3 > pv.TWT_P1, msg |-> "TWT_P3 must be > TWT_P1"],
       [cond |-> pv.BDB < pv.BDE,    msg |-> "BDB must be < BDE"],
       [cond |-> pv.BDB >= 0,        msg |-> "BDB must be >= 0"],
       [cond |-> pv.BFT >= 0 /\ pv.BFT <= 100,
                                     msg |-> "BFT must be between 0 and 100"],
       [cond |-> pv.TLT > 0,         msg |-> "Timeline thickness must be > 0"],
       [cond |-> pv.HLT > 0,         msg |-> "Horizontal line thickness must be > 0"],
       [cond |-> pv.HE > 0,          msg |-> "Horizontal erosion must be > 0"],
       [cond |-> pv.Trace_P1 >= 0,   msg |-> "Trace_P1 must be >= 0"],
       [cond |-> pv.Trace_P2 >= 0,   msg |-> "Trace_P2 must be >= 0"],
       [cond |-> pv.Trace_P3 >= 0,   msg |-> "Trace_P3 must be >= 0"] >>

\* tab_validations with BFT = 100 refused (C7 is checked against it)
tab_validationsBelow100(pv) ==
    << [cond |-> pv.DT > 0,          msg |-> "Sample rate must be > 0"],
       [cond |-> pv.F4 > pv.F3,      msg |-> "F4 must be > F3"],
       [cond |-> pv.F3 > pv.F2,      msg |-> "F3 must be > F2"],
       [cond |-> pv.F2 > pv.F1,      msg |-> "F2 must be > F1"],
       [cond |-> pv.F1 > 0,          msg |-> "F1 must be > 0"],
       [cond |-> pv.TWT_P3 > pv.TWT_P1, msg |-> "TWT_P3 must be > TWT_P1"],
       [cond |-> pv.BDB < pv.BDE,    msg |-> "BDB must be < BDE"],
       [cond |-> pv.BDB >= 0,        msg |-> "BDB must be >= 0"],
       [cond |-> pv.BFT >= 0 /\ pv.BFT < 100,
                                     msg |-> "BFT must be between 0 and 100"],
       [cond |-> pv.TLT > 0,         msg |-> "Timeline thickness must be > 0"],
       [cond |-> pv.HLT > 0,         msg |-> "Horizontal line thickness must be > 0"],
       [cond |-> pv.HE > 0,          msg |-> "Horizontal erosion must be > 0"],
       [cond |-> pv.Trace_P1 >= 0,   msg |-> "Trace_P1 must be >= 0"],
       [cond |-> pv.Trace_P2 >= 0,   msg |-> "Trace_P2 must be >= 0"],
       [cond |-> pv.Trace_P3 >= 0,   msg |-> "Trace_P3 must be >= 0"] >>

\* the validations list of ParametersTab.save_parameters
tab_validations(pv) ==
    << [cond |-> pv.DT > 0,          msg |-> "Sample rate must be > 0"],
       [cond |-> pv.F4 > pv.F3,      msg |-> "F4 must be > F3"],
       [cond |-> pv.F3 > pv.F2,      msg |-> "F3 must be > F2"],
       [cond |-> pv.F2 > pv.F1,      msg |-> "F2 must be > F1"],
       [cond |-> pv.F1 > 0,          msg |-> "F1 must be > 0"],
       [cond |-> pv.TWT_P3 > pv.TWT_P1, msg |-> "TWT_P3 must be > TWT_P1"],
       [cond |-> pv.BDB < pv.BDE,    msg |-> "BDB must be < BDE"],
       [cond |-> pv.BDB >= 0,        msg |-> "BDB must be >= 0"],
       [cond |-> pv.BFT >= 0 /\ pv.BFT <= 100,
                                     msg |-> "BFT must be between 0 and 100"],
       [cond |-> pv.TLT > 0,         msg |-> "Timeline thickness must be > 0"],
       [cond |-> pv.HLT > 0,         msg |-> "Horizontal line thickness must be > 0"],
       [cond |-> pv.HE > 0,          msg |-> "Horizontal erosion must be > 0"],
       [cond |-> pv.Trace_P1 >= 0,   msg |-> "Trace_P1 must be >= 0"],
       [cond |-> pv.Trace_P2 >= 0,   msg |-> "Trace_P2 must be >= 0"],
       [cond |-> pv.Trace_P3 >= 0,   msg |-> "Trace_P3 must be >= 0"] >>

\* "for condition, message in validations: if not condition: raise
\* ValueError(message)": the message raised, or None when all hold
FirstFailure(vs) ==
    IF \A i \in 1..Len(vs) : vs[i].cond THEN None
    ELSE vs[CHOOSE i \in 1..Len(vs) :
                /\ ~vs[i].cond
                /\ \A j \in 1..(i - 1) : vs[j].cond].msg

\* str(e) of the ValueError int() raises on a text that is no integer
InvalidLiteral == "invalid literal for int() with base 10"

\* the message of the ValueError input_parameters raises on the texts of the
\* dialog (None: it raises none): int() of each text, then the validations
ValueError(fields) ==
    IF AllInt(fields)
    THEN FirstFailure(validations(ParamValues(fields)))
    ELSE InvalidLiteral

\* the same in ParametersTab.save_parameters
TabValueError(fields) ==
    IF AllInt(fields)
    THEN FirstFailure(tab_validations(ParamValues(fields)))
    ELSE InvalidLiteral

\* the lines but for the last parameter's (C16 is checked against it)
ParFileWithoutLast(pv) ==
    [i \in 1..(Len(ParamKeys) - 1) |-> <<ParamKeys[i], Str(pv[ParamKeys[i]])>>]

\* the lines f"{param}\t{value}\n" written for param_values, in order
ParFileOf(pv) == [i \in 1..Len(ParamKeys) |-> <<ParamKeys[i], Str(pv[ParamKeys[i]])>>]

\* dict(line.split('\t') ...) then params.update: the texts a .par file
\* gives, over the defaults
RECURSIVE UpdateFrom(_, _)
UpdateFrom(params, lines) ==
    IF lines = <<>> THEN params
    ELSE UpdateFrom(
            IF lines[1][1] \in DOMAIN params
            THEN [params EXCEPT ![lines[1][1]] = lines[1][2]]
            ELSE params,
            Tail(lines))

\* a file of the PARAMETERS folder: whether it exists, and its lines
AbsentFile == [exists |-> FALSE, lines |-> <<>>]

LoadedParams(defaults, file) ==
    IF file.exists THEN UpdateFrom(defaults, file.lines) ELSE defaults


(***************************************************************************)
(* State.                                                                  *)
(***************************************************************************)
VARIABLES
    ui,                         \* the user interface the process runs: "window" or "tabs"
    outer,                      \* the runs of digitize_segy that wait, further up the call
                                \* stack, for a processEvents call to return (innermost last)
    \* CoordinateAssignmentDialog
    coords_pc,                  \* "closed", "open", "accepted" or "rejected"
    cdp_range,                  \* the CDP list the dialog was made for
    min_cdp,
    max_cdp,
    direction1_radio,           \* isChecked() of the low-to-high option
    direction2_radio,           \* isChecked() of the high-to-low option
    radio_clicked,              \* whether an option was clicked since the dialog opened
    coordinates,                \* <<>> or what get_coordinates gave after exec()
    \* ROISelectionDialog
    roi_pc,                     \* "closed", "open", "accepted" or "rejected"
    original_height,            \* shape of the image the dialog was made for
    original_width,
    downsample_factor,
    dialog_points,              \* self.points of the dialog, in original image coordinates
    active_point_index,         \* <<>> (None) or <<index>>
    is_selection_mode,
    point_buttons,              \* isEnabled() of the three point buttons
    accept_button,              \* isEnabled() of "Accept Selection"
    toolbar,                    \* isEnabled() of the navigation toolbar
    raised,                     \* <<>> or <<exception>>: what the dialog's last handler raised
    \* ROIManager
    mgr_pc,                     \* where select_roi stands
    mgr_points,                 \* self.points of the manager
    roi_file,                   \* <<>> or <<lines>>: ROI/<base>.roi
    select_roi_result,          \* <<>> or <<what select_roi returned>>
    \* SegyRecover (main window)
    image_path,                 \* None or the loaded image
    img_array,                  \* None or the pixels of the loaded image
    points,                     \* ROI corner points
    binary_rectified_image,     \* None or the image it was rectified from
    load_button,                \* enabled state of "Load Image"
    param_button,               \* enabled state of "Parameters"
    begin_digitization_button,  \* enabled state of "Begin Digitization"
    attrs,                      \* <<>> or <<pv>>: the attributes DT, F1, ... set on the window
    console,                    \* lines appended to the console by the handler in progress or last run
    \* handler in progress
    pc,                         \* "idle", "param_dialog", or the stage the run is in
    dialog,                     \* <<>> or <<fields>>: the texts of the open ParameterDialog
    \* files of the work directory
    parFile,                    \* PARAMETERS/<base>.par
    segyFile,                   \* SEGY/<base>.segy: the run that wrote it (0: no file), whether complete
    tmpFile,                    \* the temporary file of a write_segy in progress
    \* ProgressStatusBar
    canceled,                   \* _canceled
    progress_visible,           \* progress bar and cancel button visible
    \* the run of digitize_segy
    run,                        \* number of the current run
    calls,                      \* stages invoked by the current run, in order
    unit,                       \* work units the running stage has done
    new_times,                  \* the uniform grid built for resample_data
    cancel_stage,               \* index of the stage during which Cancel was first pressed (0: not pressed)
    result,                     \* what timeline_baseline_window.exec() gave: None, "Accepted", "Rejected"
    returned,                   \* the steps of the run that gave a result digitize_segy went on with
    baselines,                  \* what detect_baselines returned in this run: the locals
                                \* raw_baselines, clean_baselines and final_baselines
    failure,                    \* the stage that gave up in this run (0: none), how, and
                                \* after how many units of its work
    \* ParametersTab
    tab_image_path, tab_fields, tab_parameters, next_button, n_emitted, tab_console

winVars == <<image_path, img_array, points, binary_rectified_image, load_button,
             param_button, begin_digitization_button, attrs, console>>
obsVars == <<calls, new_times, cancel_stage, result, returned, failure, baselines>>
otherRunVars == <<segyFile, tmpFile, canceled, progress_visible, run, unit>>
runVars == <<otherRunVars, obsVars>>
tabVars == <<tab_image_path, tab_fields, tab_parameters, next_button, n_emitted,
             tab_console>>
\* the digitize_segy activations suspended inside a processEvents call
coordsVars == <<coords_pc, cdp_range, min_cdp, max_cdp, direction1_radio,
                direction2_radio, radio_clicked, coordinates>>

roiVars == <<roi_pc, original_height, original_width, downsample_factor,
             dialog_points, active_point_index, is_selection_mode, point_buttons,
             accept_button, toolbar, raised>>
mgrVars == <<mgr_pc, mgr_points, roi_file, select_roi_result>>

\* the dialogs that are examined on their own
dialogVars == <<coordsVars, roiVars, mgrVars>>

extVars == <<outer, dialogVars>>

\* the application but for its dialogs
appVars == <<ui, winVars, pc, dialog, parFile, runVars, tabVars, outer>>

vars == <<ui, winVars, pc, dialog, parFile, runVars, tabVars, extVars>>

Line(kind, text) == [kind |-> kind, text |-> text]

EmptyFields == [k \in KeySet |-> <<>>]

\* the state after construction, whichever interface runs, but for the
\* files the PARAMETERS folder holds
Built ==
    /\ image_path = None
    /\ img_array = None
    /\ points = <<>>
    /\ binary_rectified_image = None
    /\ load_button = TRUE
    /\ param_button = FALSE
    /\ begin_digitization_button = FALSE
    /\ attrs = <<>>
    /\ console = <<>>
    /\ pc = "idle"
    /\ dialog = <<>>
    /\ segyFile = [i \in Images |-> [run |-> 0, complete |-> FALSE]]
    /\ tmpFile = [run |-> 0, complete |-> FALSE]
    /\ canceled = FALSE
    /\ progress_visible = FALSE
    /\ run = 0
    /\ calls = <<>>
    /\ unit = 0
    /\ new_times = <<>>
    /\ cancel_stage = 0
    /\ result = None
    /\ returned = {}
    /\ failure = [stage |-> 0, how |-> "ok", at |-> 0]
    /\ baselines = [raw_baselines |-> <<>>, clean_baselines |-> <<>>,
                    final_baselines |-> <<>>]
    /\ outer = <<>>
    /\ tab_image_path = None
    /\ tab_fields = EmptyFields
    /\ tab_parameters = <<>>
    /\ next_button = FALSE
    /\ n_emitted = 0
    /\ tab_console = <<>>

\* the state after construction in an empty work directory
Constructed == Built /\ parFile = [i \in Images |-> AbsentFile]

\* SegyRecover, the main window with its dialogs
\* no CoordinateAssignmentDialog has been made
CoordsClosed ==
    /\ coords_pc = "closed"
    /\ cdp_range = <<>>
    /\ min_cdp = 0
    /\ max_cdp = 0
    /\ direction1_radio = FALSE
    /\ direction2_radio = FALSE
    /\ radio_clicked = FALSE
    /\ coordinates = <<>>

\* no ROISelectionDialog has been made
RoiClosed ==
    /\ roi_pc = "closed"
    /\ original_height = 0
    /\ original_width = 0
    /\ downsample_factor = 0
    /\ dialog_points = <<>>
    /\ active_point_index = <<>>
    /\ is_selection_mode = FALSE
    /\ point_buttons = <<FALSE, FALSE, FALSE>>
    /\ accept_button = FALSE
    /\ toolbar = FALSE
    /\ raised = <<>>

\* no ROIManager has been made
ManagerClosed ==
    /\ mgr_pc = "closed"
    /\ mgr_points = <<>>
    /\ roi_file = <<>>
    /\ select_roi_result = <<>>

DialogsClosed == CoordsClosed /\ RoiClosed /\ ManagerClosed

Init == ui = "window" /\ Constructed /\ DialogsClosed

\* either the main window or the tabbed interface
InitParams == ui \in {"window", "tabs"} /\ Constructed /\ DialogsClosed

(***************************************************************************)
(* Main window: Load Image, Parameters, Restart.                           *)
(***************************************************************************)
\* calls, new_times, cancel_stage, result, returned and failure describe the
\* run in progress or last finished (the locals of digitize_segy and what it
\* did); they are forgotten when another handler begins
NoFailure == [stage |-> 0, how |-> "ok", at |-> 0]

\* the baseline locals of digitize_segy before detect_baselines has returned
NoBaselines ==
    [raw_baselines |-> <<>>, clean_baselines |-> <<>>, final_baselines |-> <<>>]

ForgetRun ==
    /\ calls' = <<>>
    /\ new_times' = <<>>
    /\ cancel_stage' = 0
    /\ result' = None
    /\ returned' = {}
    /\ failure' = NoFailure
    /\ baselines' = NoBaselines
    /\ UNCHANGED otherRunVars

\* workflow.load_image: the file dialog gives an image, or the user cancels
\* it or the file cannot be read (image_loader.load_image() is False)
load_image ==
    /\ ui = "window"
    /\ pc = "idle"
    /\ load_button
    /\ \E picked \in Images \cup {None} :
          IF picked # None
          THEN /\ image_path' = picked
               /\ img_array' = picked
               /\ param_button' = TRUE
               /\ console' = <<Line("success", "Image loaded")>>
          ELSE /\ console' = <<>>
               /\ UNCHANGED <<image_path, img_array, param_button>>
    /\ ForgetRun
    /\ UNCHANGED <<points, binary_rectified_image, load_button,
                   begin_digitization_button, attrs, pc, dialog, parFile,
                   tabVars, ui, extVars>>

\* SegyRecover.restart_process, after `before` was appended to the console
\* and before `after` is: the user answers the question Yes or No
restart_process(yes, before, after) ==
    IF yes
    THEN /\ image_path' = None
         /\ img_array' = None
         /\ points' = <<>>
         /\ param_button' = FALSE
         /\ begin_digitization_button' = FALSE
         /\ console' = <<Line("info", "Application restarted. Please load a new image.")>> \o after
         /\ load_button' = TRUE
    ELSE /\ console' = console \o before \o after
         /\ UNCHANGED <<image_path, img_array, points, param_button,
                        begin_digitization_button, load_button>>

\* the "Restart Process" button
restart_click ==
    /\ ui = "window"
    /\ pc = "idle"
    /\ \E yes \in BOOLEAN : restart_process(yes, <<>>, <<>>)
    /\ ForgetRun
    /\ UNCHANGED <<binary_rectified_image, attrs, pc, dialog, parFile, tabVars, ui, extVars>>

\* workflow.input_parameters up to dialog.exec(): the dialog opens with the
\* defaults overlaid by the image's .par file
input_parameters_open ==
    /\ ui = "window"
    /\ pc = "idle"
    /\ param_button
    /\ IF image_path = None
       THEN /\ console' = <<Line("warning", "Please load an image first.")>>
            /\ UNCHANGED <<pc, dialog>>
       ELSE /\ console' = <<>>
            /\ dialog' = <<LoadedParams(default_params, parFile[image_path])>>
            /\ pc' = "param_dialog"
    /\ ForgetRun
    /\ UNCHANGED <<image_path, img_array, points, binary_rectified_image,
                   load_button, param_button, begin_digitization_button, attrs,
                   parFile, tabVars, ui, extVars>>

\* the user types into the fields of the open dialog
dialog_edit(inputs) ==
    /\ pc = "param_dialog"
    /\ \E typed \in inputs : dialog' = <<typed>>
    /\ UNCHANGED <<winVars, pc, parFile, runVars, tabVars, ui, extVars>>

\* the user closes the dialog without accepting: dialog.exec() is false
dialog_reject ==
    /\ pc = "param_dialog"
    /\ pc' = "idle"
    /\ dialog' = <<>>
    /\ UNCHANGED <<winVars, parFile, runVars, tabVars, ui, extVars>>

\* workflow.input_parameters after the dialog was accepted
input_parameters_accept ==
    /\ pc = "param_dialog"
    /\ pc' = "idle"
    /\ dialog' = <<>>
    /\ LET fields == dialog[1]
           error == ValueError(fields)
       IN  IF error = None
           THEN /\ parFile' = [parFile EXCEPT ![image_path] =
                                  [exists |-> TRUE, lines |-> ParFileOf(ParamValues(fields))]]
                /\ attrs' = <<ParamValues(fields)>>
                /\ console' = <<Line("success", "Parameters saved")>>
                /\ begin_digitization_button' = TRUE
           ELSE /\ console' = <<Line("error", error)>>
                /\ UNCHANGED <<parFile, attrs, begin_digitization_button>>
    /\ UNCHANGED <<image_path, img_array, points, binary_rectified_image,
                   load_button, param_button, runVars, tabVars, ui, extVars>>

(***************************************************************************)
(* The run of digitize_segy.                                               *)
(***************************************************************************)
\* the steps of digitize_segy, in the order of its text
Stages ==
    <<"remove_timelines", "detect_baselines", "confirm", "extract_amplitude",
      "process_amplitudes", "resample_data", "filter_data", "write_segy">>

StageIndex(name) == CHOOSE k \in 1..Len(Stages) : Stages[k] = name

Running == pc \in {Stages[k] : k \in 1..Len(Stages)}

\* the values digitize_segy passes to each step
StageArgs ==
    [remove_timelines   |-> {"binary_rectified_image", "HE", "HLT"},
     detect_baselines   |-> {"image_g", "TLT", "BDB", "BDE", "BFT"},
     confirm            |-> {"binary_rectified_image", "image_f", "image_g", "image_m",
                             "raw_baselines", "clean_baselines", "final_baselines",
                             "BDB", "BDE"},
     extract_amplitude  |-> {"image_g", "final_baselines"},
     process_amplitudes |-> {"raw_amplitude"},
     resample_data      |-> {"processed_amplitude", "old_times", "new_times"},
     filter_data        |-> {"resampled", "DT", "F1", "F2", "F3", "F4"},
     write_segy         |-> {"filtered", "final_baselines", "image_path",
                             "DT", "F1", "F2", "F3", "F4"}]

\* the values each step's result is bound to in digitize_segy
StageResults ==
    [remove_timelines   |-> {"image_g", "image_f"},
     detect_baselines   |-> {"image_m", "raw_baselines", "clean_baselines", "final_baselines"},
     confirm            |-> {"result"},
     extract_amplitude  |-> {"raw_amplitude"},
     process_amplitudes |-> {"processed_amplitude"},
     resample_data      |-> {"resampled"},
     filter_data        |-> {"filtered"},
     write_segy         |-> {}]

\* what digitize_segy reads from the main window
WindowValues ==
    {"binary_rectified_image", "image_path", "work_dir"} \cup KeySet

\* what digitize_segy computes itself right before a call
StageLocals ==
    [s \in {Stages[k] : k \in 1..Len(Stages)} |->
        IF s = "resample_data" THEN {"old_times", "new_times"} ELSE {}]

\* the error digitize_segy reports when a step gives None (write_segy: False)
FailureMessage ==
    [remove_timelines   |-> "Timeline removal failed",
     detect_baselines   |-> "Baseline detection failed",
     confirm            |-> "Process cancelled by user",
     extract_amplitude  |-> "Failed to extract amplitude",
     process_amplitudes |-> "Failed to process amplitude",
     resample_data      |-> "Failed to resample data",
     filter_data        |-> "Failed to filter data",
     write_segy         |-> "Failed to create SEGY file"]

\* np.arange(start, stop, step) for integers, step > 0
RECURSIVE arange(_, _, _)
arange(start, stop, step) ==
    IF start >= stop THEN <<>>
    ELSE <<start>> \o arange(start + step, stop, step)

\* new_times = np.arange(TWT_P1, TWT_P3 + DT, DT)
NewTimes(pv) == arange(pv.TWT_P1, pv.TWT_P3 + pv.DT, pv.DT)

\* ProgressStatusBar.start: the flag is reset, the bar and the cancel button
\* shown, then processEvents delivers a click on Cancel if there is one
progress_start(click) ==
    /\ canceled' = click
    /\ progress_visible' = TRUE

\* ProgressStatusBar.update: processEvents delivers a click on Cancel if
\* there is one (ProgressStatusBar.cancel sets the flag)
progress_update(click) ==
    /\ canceled' = (canceled \/ click)
    /\ UNCHANGED progress_visible

\* ProgressStatusBar.finish
progress_finish ==
    /\ progress_visible' = FALSE
    /\ UNCHANGED canceled

\* the stage during which the user first pressed Cancel in this run
NoteCancel(click, k, noted) == IF click /\ noted = 0 THEN k ELSE noted

NoTmp == [run |-> 0, complete |-> FALSE]

\* OpenOutput writing straight to SEGY/<base>.segy (C9 is checked against
\* it)
OpenOutputInPlace(r, img) ==
    [tmp |-> [run |-> 0, complete |-> FALSE],
     segy |-> [segyFile EXCEPT ![img] = [run |-> r, complete |-> FALSE]]]

\* SegyFileWriter.write_segy opens its output for run r: a temporary file,
\* the file at SEGY/<base>.segy staying as it is
OpenOutput(r, img) ==
    [tmp |-> [run |-> r, complete |-> FALSE], segy |-> segyFile]

\* SegyFileWriter.write_segy has written every trace: the temporary file is
\* renamed to SEGY/<base>.segy
RenameOutput(img) ==
    [segyFile EXCEPT ![img] = [run |-> tmpFile.run, complete |-> TRUE]]

\* the alternative of extract_amplitude being passed clean_baselines (C13
\* is checked against it)
BaselinesPassedClean(stage) ==
    IF stage = "extract_amplitude" THEN "clean_baselines"
    ELSE IF stage \in {"confirm", "write_segy"} THEN "final_baselines"
    ELSE None

\* the local that digitize_segy passes as the final_baselines argument of a
\* step (None: the step takes none)
BaselinesPassed(stage) ==
    IF stage \in {"confirm", "extract_amplitude", "write_segy"}
    THEN "final_baselines"
    ELSE None

\* the record of a call: the step, the names of the values passed, the
\* window's parameters at the call and the baseline list passed
CallOf(stage, found) ==
    [stage |-> stage, args |-> StageArgs[stage], with |-> attrs,
     baselines |-> IF BaselinesPassed(stage) = None THEN <<>>
                   ELSE found[BaselinesPassed(stage)]]

\* what detect_baselines can return: raw, clean and final baseline columns,
\* each strictly increasing; the final list holds the clean ones and those
\* filled in between them
Detections ==
    { [raw_baselines |-> <<1, 3>>, clean_baselines |-> <<1, 3>>,
       final_baselines |-> <<1, 2, 3>>],
      [raw_baselines |-> <<2, 5, 6>>, clean_baselines |-> <<2, 6>>,
       final_baselines |-> <<2, 4, 6>>] }

\* digitize_segy, in run r and with the calls `prior` made, calls stage k of
\* the core: the stage calls progress.start(), and write_segy opens its
\* output
Invoke(k, click, r, prior, noted) ==
    /\ calls' = Append(prior, CallOf(Stages[k], baselines))
    /\ pc' = Stages[k]
    /\ unit' = 0
    /\ progress_start(click)
    /\ cancel_stage' = NoteCancel(click, k, noted)
    /\ IF Stages[k] = "write_segy"
       THEN /\ tmpFile' = OpenOutput(r, image_path).tmp
            /\ segyFile' = OpenOutput(r, image_path).segy
       ELSE /\ tmpFile' = NoTmp
            /\ UNCHANGED segyFile

\* the four corner points ROIManager.get_points gives after a selection
ROIQuad == << <<0, 0>>, <<4, 0>>, <<0, 3>>, <<4, 3>> >>

\* the "Begin Digitization" button: workflow.select_area, then
\* crop_seismic_section, then digitize_segy up to its first stage
begin_digitization ==
    /\ ui = "window"
    /\ pc = "idle"
    /\ begin_digitization_button
    /\ run < MaxRuns
    /\ IF image_path = None
       THEN /\ console' = <<Line("warning", "Please load an image first")>>
            /\ ForgetRun
            /\ UNCHANGED <<points, binary_rectified_image, load_button,
                           param_button, pc>>
       ELSE \E selected \in BOOLEAN, click \in BOOLEAN :
              IF ~selected
              THEN /\ console' = <<Line("warning", "ROI selection cancelled or failed")>>
                   /\ ForgetRun
                   /\ UNCHANGED <<points, binary_rectified_image, load_button,
                                  param_button, pc>>
              ELSE /\ points' = ROIQuad
                   /\ IF Len(ROIQuad) = 4 /\ img_array # None
                      THEN /\ binary_rectified_image' = img_array
                           /\ load_button' = FALSE
                           /\ param_button' = FALSE
                           /\ console' = <<Line("success", "ROI selection completed successfully"),
                                           Line("success", "Seismic section cropped and rectified"),
                                           Line("header", "DIGITIZATION PROCESS")>>
                           /\ run' = run + 1
                           /\ new_times' = <<>>
                           /\ result' = None
                           /\ returned' = {}
                           /\ failure' = NoFailure
                           /\ baselines' = NoBaselines
                           /\ Invoke(1, click, run + 1, <<>>, 0)
                      ELSE /\ console' = <<Line("success", "ROI selection completed successfully"),
                                           Line("error", "Invalid ROI points for rectification")>>
                           /\ ForgetRun
                           /\ UNCHANGED <<binary_rectified_image, load_button,
                                          param_button, pc>>
    /\ UNCHANGED <<image_path, img_array, begin_digitization_button, attrs,
                   dialog, parFile, tabVars, ui, extVars>>

\* Fatal without the check that follows detect_baselines (C5 is checked
\* against it)
FatalButDetection(stage, out) == out = "none" /\ stage # "detect_baselines"

\* "if image_g is None: ... return" and its like after each stage, and
\* "if not segy_writer.write_segy(...): ... return": digitize_segy ends the
\* run on a stage that gave None (write_segy: False)
Fatal(stage, out) == out = "none"

\* Proceeds with the test of the answer left out (C2 is checked against it)
ProceedsAnyway(answer) == answer \in {"Accepted", "Rejected"}

\* "if result != QMessageBox.Accepted: ... return"
Proceeds(answer) == answer = "Accepted"

\* NextStage with process_amplitudes left out of the sequence (C4 is
\* checked against it)
NextStageSkipping(k) == IF k = 4 THEN 6 ELSE k + 1

\* the step digitize_segy takes after step k
NextStage(k) == k + 1

\* a stage of the core gave up (None, False, or an exception) and
\* digitize_segy ends the run: it reports the failure and returns; the
\* stage has dropped what it held
StageFails(k, out, yes) ==
    /\ pc' = "idle"
    /\ unit' = 0
    /\ progress_finish
    /\ tmpFile' = NoTmp
    /\ failure' = [stage |-> k, how |-> out, at |-> unit]
    /\ IF out = "raise"
       THEN restart_process(yes, <<Line("error", "Digitization failed")>>, <<>>)
       ELSE /\ console' = Append(console, Line("error", FailureMessage[Stages[k]]))
            /\ UNCHANGED <<image_path, img_array, points, param_button,
                           begin_digitization_button, load_button>>
    /\ UNCHANGED <<binary_rectified_image, attrs, dialog, parFile, segyFile,
                   run, calls, new_times, cancel_stage, result, returned,
                   baselines, tabVars, ui, extVars>>

\* digitize_segy goes on after step k gave it a result it does not end the
\* run on
AfterStage(k, click, shown) ==
    /\ returned' = returned \cup {Stages[k]}
    /\ CASE Stages[k] = "detect_baselines" ->
              /\ pc' = "confirm"
              /\ \E found \in Detections :
                    /\ baselines' = found
                    /\ calls' = Append(calls, CallOf("confirm", found))
              /\ progress_finish
              /\ unit' = 0
              /\ UNCHANGED <<console, segyFile, tmpFile, new_times, cancel_stage>>
         [] Stages[k] = "write_segy" ->
              /\ pc' = "idle"
              /\ progress_finish
              /\ unit' = 0
              /\ segyFile' = RenameOutput(image_path)
              /\ tmpFile' = NoTmp
              /\ console' = console \o
                    <<Line("success", "Digitization completed successfully!"),
                      Line("header", "RESULTS DISPLAY"),
                      IF shown
                      THEN Line("success", "Results displayed successfully")
                      ELSE Line("warning", "Some results could not be displayed")>>
              /\ UNCHANGED <<calls, new_times, cancel_stage, baselines>>
         [] OTHER ->
              /\ Invoke(NextStage(k), click, run, calls, cancel_stage)
              /\ new_times' = IF Stages[k] = "process_amplitudes"
                              THEN NewTimes(attrs[1])
                              ELSE new_times
              /\ UNCHANGED <<console, baselines>>
    /\ UNCHANGED <<image_path, img_array, points, binary_rectified_image,
                   load_button, param_button, begin_digitization_button,
                   attrs, run, result>>

\* the running stage does one unit of its work (a row, a trace): it polls
\* wasCanceled() and gives up if the flag is set; else it does the work,
\* which may fail, and calls progress.update()
stage_step ==
    /\ Running
    /\ pc # "confirm"
    /\ unit < MaxUnits
    /\ LET k == StageIndex(pc)
       IN  \E out \in {"ok", "none", "raise"}, click \in BOOLEAN,
              yes \in BOOLEAN, shown \in BOOLEAN :
             /\ canceled => out = "none"
             /\ IF out = "ok"
                THEN /\ unit' = unit + 1
                     /\ progress_update(click)
                     /\ cancel_stage' = NoteCancel(click, k, cancel_stage)
                     /\ UNCHANGED <<winVars, pc, dialog, parFile, segyFile,
                                    tmpFile, run, calls, new_times, result,
                                    returned, failure, baselines, tabVars,
                                    ui, extVars>>
                ELSE IF out = "raise" \/ Fatal(pc, out)
                THEN StageFails(k, out, yes)
                ELSE /\ failure' = [stage |-> k, how |-> out, at |-> unit]
                     /\ AfterStage(k, click, shown)
                     /\ UNCHANGED <<dialog, parFile, tabVars, ui, extVars>>

\* the running stage has done its work: it calls progress.finish() and
\* returns its result, and digitize_segy goes on to its next step
stage_return ==
    /\ Running
    /\ pc # "confirm"
    /\ unit >= 1
    /\ \E click \in BOOLEAN, shown \in BOOLEAN :
          AfterStage(StageIndex(pc), click, shown)
    /\ UNCHANGED <<failure, dialog, parFile, tabVars, ui, extVars>>

\* the user answers the verification window (TimelineBaselineWindow.exec())
confirm_answer ==
    /\ pc = "confirm"
    /\ \E answer \in {"Accepted", "Rejected"}, yes \in BOOLEAN, click \in BOOLEAN :
          /\ result' = answer
          /\ IF Proceeds(answer)
             THEN /\ returned' = returned \cup {"confirm"}
                  /\ Invoke(NextStage(StageIndex("confirm")), click, run, calls,
                            cancel_stage)
                  /\ UNCHANGED winVars
             ELSE /\ restart_process(yes,
                        <<Line("warning", "Process cancelled by user")>>,
                        <<Line("warning", "Try setting new parameters")>>)
                  /\ pc' = "idle"
                  /\ UNCHANGED <<binary_rectified_image, attrs, canceled,
                                 progress_visible, calls, unit, tmpFile,
                                 segyFile, cancel_stage, returned>>
    /\ UNCHANGED <<dialog, parFile, run, new_times, failure, baselines,
                   tabVars, ui, extVars>>

(***************************************************************************)
(* Clicks delivered inside a stage.  ProgressStatusBar.start and update    *)
(* call QApplication.processEvents(), which dispatches every pending       *)
(* event: a click on a button of the main window that is enabled runs the  *)
(* button's handler inside the stage, on top of digitize_segy's frame.     *)
(***************************************************************************)
\* the frame of digitize_segy that waits for processEvents to return
Frame ==
    [pc |-> pc, unit |-> unit, calls |-> calls, new_times |-> new_times,
     cancel_stage |-> cancel_stage, result |-> result, returned |-> returned,
     failure |-> failure, baselines |-> baselines]

\* a stage is inside progress.start() or progress.update()
InProcessEvents == Running /\ pc # "confirm"

\* "Restart Process" clicked while a stage runs: restart_process runs
\* inside the stage, which then goes on
deliver_restart ==
    /\ ui = "window"
    /\ InProcessEvents
    /\ \E yes \in BOOLEAN : restart_process(yes, <<>>, <<>>)
    /\ UNCHANGED <<binary_rectified_image, attrs, pc, dialog, parFile, runVars,
                   tabVars, ui, extVars>>

\* "Begin Digitization" clicked while a stage runs (crop_seismic_section
\* disables the Load Image and Parameters buttons only): select_area runs
\* inside the stage, and with it crop_seismic_section and digitize_segy
deliver_begin ==
    /\ ui = "window"
    /\ InProcessEvents
    /\ begin_digitization_button
    /\ run < MaxRuns
    /\ Len(outer) < MaxDepth
    /\ IF image_path = None
       THEN /\ console' = <<Line("warning", "Please load an image first")>>
            /\ UNCHANGED <<points, binary_rectified_image, load_button,
                           param_button, pc, runVars, outer>>
       ELSE \E selected \in BOOLEAN, click \in BOOLEAN :
              IF ~selected
              THEN /\ console' = <<Line("warning", "ROI selection cancelled or failed")>>
                   /\ UNCHANGED <<points, binary_rectified_image, load_button,
                                  param_button, pc, runVars, outer>>
              ELSE /\ points' = ROIQuad
                   /\ IF Len(ROIQuad) = 4 /\ img_array # None
                      THEN /\ binary_rectified_image' = img_array
                           /\ load_button' = FALSE
                           /\ param_button' = FALSE
                           /\ console' = <<Line("success", "ROI selection completed successfully"),
                                           Line("success", "Seismic section cropped and rectified"),
                                           Line("header", "DIGITIZATION PROCESS")>>
                           /\ outer' = Append(outer, Frame)
                           /\ run' = run + 1
                           /\ new_times' = <<>>
                           /\ result' = None
                           /\ returned' = {}
                           /\ failure' = NoFailure
                           /\ baselines' = NoBaselines
                           /\ Invoke(1, click, run + 1, <<>>, 0)
                      ELSE /\ console' = <<Line("success", "ROI selection completed successfully"),
                                           Line("error", "Invalid ROI points for rectification")>>
                           /\ UNCHANGED <<binary_rectified_image, load_button,
                                          param_button, pc, runVars, outer>>
    /\ UNCHANGED <<image_path, img_array, begin_digitization_button, attrs,
                   dialog, parFile, tabVars, ui, dialogVars>>

\* the handler that ran inside processEvents has returned, and so does
\* processEvents: the stage that called it goes on
resume ==
    /\ ui = "window"
    /\ pc = "idle"
    /\ outer # <<>>
    /\ LET f == outer[Len(outer)]
       IN  /\ pc' = f.pc
           /\ unit' = f.unit
           /\ calls' = f.calls
           /\ new_times' = f.new_times
           /\ cancel_stage' = f.cancel_stage
           /\ result' = f.result
           /\ returned' = f.returned
           /\ failure' = f.failure
           /\ baselines' = f.baselines
    /\ outer' = SubSeq(outer, 1, Len(outer) - 1)
    /\ UNCHANGED <<winVars, dialog, parFile, segyFile, tmpFile, canceled,
                   progress_visible, run, tabVars, ui, dialogVars>>

(***************************************************************************)
(* ParametersTab.                                                          *)
(***************************************************************************)
\* ParametersTab.load_parameters(image_path)
load_parameters ==
    /\ ui = "tabs"
    /\ \E path \in Images \cup {None} :
         LET target == IF path # None THEN path ELSE tab_image_path
         IN  /\ tab_image_path' = target
             /\ IF target = None
                THEN UNCHANGED <<tab_fields, next_button, tab_console>>
                ELSE /\ tab_fields' = LoadedParams(tab_default_params, parFile[target])
                     /\ next_button' = FALSE
                     /\ tab_console' = IF parFile[target].exists
                                       THEN <<Line("info", "Loaded parameters")>>
                                       ELSE <<>>
    /\ UNCHANGED <<ui, extVars, winVars, pc, dialog, parFile, runVars, tab_parameters, n_emitted>>

\* the user types into the fields of the tab
tab_edit(inputs) ==
    /\ ui = "tabs"
    /\ \E typed \in inputs : tab_fields' = typed
    /\ UNCHANGED <<ui, extVars, winVars, pc, dialog, parFile, runVars, tab_image_path,
                   tab_parameters, next_button, n_emitted, tab_console>>

\* ParametersTab.save_parameters ("Save Parameters")
save_parameters ==
    /\ ui = "tabs"
    /\ n_emitted < MaxEmits
    /\ IF tab_image_path = None
       THEN /\ tab_console' = <<Line("warning", "Please load an image first.")>>
            /\ UNCHANGED <<parFile, tab_parameters, next_button, n_emitted>>
       ELSE LET error == TabValueError(tab_fields)
            IN  IF error = None
                THEN /\ parFile' = [parFile EXCEPT ![tab_image_path] =
                                       [exists |-> TRUE,
                                        lines |-> ParFileOf(ParamValues(tab_fields))]]
                     /\ tab_parameters' = <<ParamValues(tab_fields)>>
                     /\ tab_console' = <<Line("success", "Parameters saved")>>
                     /\ n_emitted' = n_emitted + 1
                     /\ next_button' = TRUE
                ELSE /\ tab_console' = <<Line("error", error)>>
                     /\ UNCHANGED <<parFile, tab_parameters, next_button, n_emitted>>
    /\ UNCHANGED <<ui, extVars, winVars, pc, dialog, runVars, tab_image_path, tab_fields>>

(***************************************************************************)
(* CoordinateAssignmentDialog.                                             *)
(***************************************************************************)
\* the CDP lists a geometry file can give: not empty, in any order, with
\* repetitions
CdpLists ==
    UNION {[1..n -> 1..MaxCdp] : n \in 1..MaxCdps}

\* first element of the list instead of its least (C12 is checked against
\* it)
first(l) == l[1]

\* Python's min(l) and max(l) of a non-empty list
RECURSIVE min(_)
min(l) ==
    IF Len(l) = 1 THEN l[1]
    ELSE LET m == min(Tail(l)) IN IF l[1] <= m THEN l[1] ELSE m

RECURSIVE max(_)
max(l) ==
    IF Len(l) = 1 THEN l[1]
    ELSE LET m == max(Tail(l)) IN IF l[1] >= m THEN l[1] ELSE m

\* CoordinateAssignmentDialog.__init__: direction 1 is "Default selected"
InitCoords ==
    /\ ui = "coords"
    /\ Constructed
    /\ RoiClosed
    /\ ManagerClosed
    /\ coords_pc = "open"
    /\ cdp_range \in CdpLists
    /\ min_cdp = min(cdp_range)
    /\ max_cdp = max(cdp_range)
    /\ direction1_radio = TRUE
    /\ direction2_radio = FALSE
    /\ radio_clicked = FALSE
    /\ coordinates = <<>>

\* a click on the first option: the checkable QPushButton toggles, then
\* _handle_radio_click(direction1_radio) unchecks the other option
click_direction1 ==
    /\ coords_pc = "open"
    /\ direction1_radio' = ~direction1_radio
    /\ direction2_radio' = FALSE
    /\ radio_clicked' = TRUE
    /\ UNCHANGED <<appVars, roiVars, mgrVars, coords_pc, cdp_range, min_cdp, max_cdp, coordinates>>

\* a click on the second option
click_direction2 ==
    /\ coords_pc = "open"
    /\ direction2_radio' = ~direction2_radio
    /\ direction1_radio' = FALSE
    /\ radio_clicked' = TRUE
    /\ UNCHANGED <<appVars, roiVars, mgrVars, coords_pc, cdp_range, min_cdp, max_cdp, coordinates>>

\* CoordinateAssignmentDialog.get_coordinates
get_coordinates ==
    IF direction1_radio
    THEN <<min_cdp, max_cdp>>
    ELSE <<max_cdp, min_cdp>>

\* "Accept": dialog.exec() is true and the caller takes get_coordinates()
coords_accept ==
    /\ coords_pc = "open"
    /\ coords_pc' = "accepted"
    /\ coordinates' = <<get_coordinates>>
    /\ UNCHANGED <<appVars, roiVars, mgrVars, cdp_range, min_cdp, max_cdp, direction1_radio,
                   direction2_radio, radio_clicked>>

\* "Cancel"
coords_reject ==
    /\ coords_pc = "open"
    /\ coords_pc' = "rejected"
    /\ UNCHANGED <<appVars, roiVars, mgrVars, cdp_range, min_cdp, max_cdp, direction1_radio,
                   direction2_radio, radio_clicked, coordinates>>

(***************************************************************************)
(* ROISelectionDialog: three corners of the region of interest are picked  *)
(* on the image, the fourth is calculated.                                 *)
(***************************************************************************)
MAX_DISPLAY_DIMENSION == 2000
MAX_DOWNSAMPLE_FACTOR == 4

\* img_array.shape of the images the dialog is made for: (height, width)
ImageShapes == {<<1000, 1200>>, <<2400, 3600>>}

\* event.xdata, event.ydata of the clicks on the displayed image
ClickPositions == {<<100, 200>>, <<900, 700>>}

\* ROISelectionDialog._calculate_adaptive_downsample_factor
\* (math.ceil(max_dim / MAX_DISPLAY_DIMENSION) by integer division)
calculate_adaptive_downsample_factor(height, width) ==
    LET max_dim == max(<<height, width>>)
        factor == max(<<1, (max_dim + MAX_DISPLAY_DIMENSION - 1)
                             \div MAX_DISPLAY_DIMENSION>>)
    IN  IF max_dim <= MAX_DISPLAY_DIMENSION
        THEN 1
        ELSE min(<<factor, MAX_DOWNSAMPLE_FACTOR>>)

\* ROISelectionDialog.display_to_original
display_to_original(x, y) ==
    <<max(<<0, min(<<x * downsample_factor, original_width - 1>>)>>),
      max(<<0, min(<<y * downsample_factor, original_height - 1>>)>>)>>

\* the point calculate_and_draw_fourth_point appends to three points
fourth_point(pts) ==
    <<pts[2][1] + (pts[3][1] - pts[1][1]), pts[3][2] + (pts[2][2] - pts[1][2])>>

\* ROISelectionDialog.update_ui_state: the enabled states it leaves behind
\* and what it raises. With more than three points held,
\* self.point_buttons[3] raises IndexError after the three buttons were
\* enabled and before the accept button is set.
update_ui_state(pts, mode, accept) ==
    IF mode
    THEN [point_buttons |-> <<FALSE, FALSE, FALSE>>, accept_button |-> FALSE,
          raised |-> <<>>]
    ELSE IF Len(pts) > 3
    THEN [point_buttons |-> <<TRUE, TRUE, TRUE>>, accept_button |-> accept,
          raised |-> <<"IndexError">>]
    ELSE [point_buttons |-> [i \in 1..3 |-> i - 1 <= Len(pts)],
          accept_button |-> Len(pts) >= 3,
          raised |-> <<>>]

\* ROISelectionDialog.__init__ for an image of the given shape: the state
\* the new dialog is in when exec() shows it
OpenDialog(shape) ==
    /\ roi_pc' = "open"
    /\ original_height' = shape[1]
    /\ original_width' = shape[2]
    /\ downsample_factor' = calculate_adaptive_downsample_factor(shape[1], shape[2])
    /\ dialog_points' = <<>>
    /\ active_point_index' = <<>>
    /\ is_selection_mode' = FALSE
    /\ point_buttons' = update_ui_state(<<>>, FALSE, FALSE).point_buttons
    /\ accept_button' = update_ui_state(<<>>, FALSE, FALSE).accept_button
    /\ toolbar' = TRUE
    /\ raised' = update_ui_state(<<>>, FALSE, FALSE).raised

\* a click on an enabled point button: activate_point_selection(idx)
activate_point_selection ==
    /\ roi_pc = "open"
    /\ \E idx \in 0..2 :
        /\ point_buttons[idx + 1]
        /\ active_point_index' = <<idx>>
    /\ point_buttons' = <<FALSE, FALSE, FALSE>>
    /\ is_selection_mode' = TRUE
    /\ toolbar' = FALSE
    /\ raised' = <<>>
    /\ UNCHANGED <<appVars, coordsVars, mgrVars, roi_pc, original_height,
                   original_width, downsample_factor, dialog_points, accept_button>>

\* a left click on the image in selection mode, and the answer to "Confirm
\* Point": on_click, with deactivate_point_selection, update_ui_state and
\* calculate_and_draw_fourth_point
on_click ==
    /\ roi_pc = "open"
    /\ is_selection_mode
    /\ \E xy \in ClickPositions, yes \in BOOLEAN :
        IF ~yes
        THEN /\ raised' = <<>>
             /\ UNCHANGED <<dialog_points, active_point_index, is_selection_mode,
                            point_buttons, accept_button, toolbar>>
        ELSE LET idx == active_point_index[1]
                 orig == display_to_original(xy[1], xy[2])
                 pts == IF idx < Len(dialog_points)
                        THEN [dialog_points EXCEPT ![idx + 1] = orig]
                        ELSE Append(dialog_points, orig)
                 state == update_ui_state(pts, FALSE, accept_button)
             IN  /\ active_point_index' = <<>>
                 /\ is_selection_mode' = FALSE
                 /\ point_buttons' = state.point_buttons
                 /\ accept_button' = state.accept_button
                 /\ toolbar' = TRUE
                 /\ raised' = state.raised
                 /\ dialog_points' = IF Len(pts) = 3
                                     THEN Append(pts, fourth_point(pts))
                                     ELSE pts
    /\ UNCHANGED <<appVars, coordsVars, mgrVars, roi_pc, original_height,
                   original_width, downsample_factor>>

\* "Retry All": retry
retry ==
    /\ roi_pc = "open"
    /\ dialog_points' = <<>>
    /\ active_point_index' = <<>>
    /\ is_selection_mode' = FALSE
    /\ point_buttons' = update_ui_state(<<>>, FALSE, accept_button).point_buttons
    /\ accept_button' = update_ui_state(<<>>, FALSE, accept_button).accept_button
    /\ raised' = update_ui_state(<<>>, FALSE, accept_button).raised
    /\ UNCHANGED <<appVars, coordsVars, mgrVars, roi_pc, original_height,
                   original_width, downsample_factor, toolbar>>

\* no dialog is open: the last one, if any, ended in the given state and
\* is gone with the local variable of _get_new_roi that held it; the image
\* of the given shape stays
DialogLeft(state, shape) ==
    /\ roi_pc' = state
    /\ original_height' = shape[1]
    /\ original_width' = shape[2]
    /\ downsample_factor' = 0
    /\ dialog_points' = <<>>
    /\ active_point_index' = <<>>
    /\ is_selection_mode' = FALSE
    /\ point_buttons' = <<FALSE, FALSE, FALSE>>
    /\ accept_button' = FALSE
    /\ toolbar' = FALSE
    /\ raised' = <<>>

(***************************************************************************)
(* ROIManager: select_roi asks for a region of interest until the user     *)
(* confirms one or cancels, and saves the confirmed one to the .roi file.  *)
(* A coordinate is an int (from the dialog) or a float (from the file).    *)
(***************************************************************************)
IntNumber(v) == [v |-> v, float |-> FALSE]
FloatNumber(v) == [v |-> v, float |-> TRUE]

\* the numbers a list of points holds, whatever their type
Values(pts) == [i \in 1..Len(pts) |-> <<pts[i][1].v, pts[i][2].v>>]

\* f"{number}": a float of integral value is written with ".0"
NumberText(n) == IF n.float THEN Str(n.v) \o <<".", "0">> ELSE Str(n.v)

\* float(text) of a text NumberText wrote
float(t) ==
    IF Len(t) > 2 /\ SubSeq(t, Len(t) - 1, Len(t)) = <<".", "0">>
    THEN FloatNumber(ParseInt(SubSeq(t, 1, Len(t) - 2)))
    ELSE FloatNumber(ParseInt(t))

\* line.split() of a line of two texts separated by one space
split(line) ==
    LET k == CHOOSE i \in 1..Len(line) : line[i] = " "
    IN  <<SubSeq(line, 1, k - 1), SubSeq(line, k + 1, Len(line))>>

\* the three first points only (C19 is checked against it)
save_roi_points_without_fourth(pts) ==
    [i \in 1..(Len(pts) - 1) |-> NumberText(pts[i][1]) \o <<" ">> \o NumberText(pts[i][2])]

\* ROIManager._save_roi_points: the lines written to the .roi file
save_roi_points(pts) ==
    [i \in 1..Len(pts) |-> NumberText(pts[i][1]) \o <<" ">> \o NumberText(pts[i][2])]

\* ROIManager._load_roi_points
load_roi_points(lines) ==
    [i \in 1..Len(lines) |-> <<float(split(lines[i])[1]), float(split(lines[i])[2])>>]

\* dialog.get_points(): the dialog's points, ints
get_points ==
    [i \in 1..Len(dialog_points) |->
        <<IntNumber(dialog_points[i][1]), IntNumber(dialog_points[i][2])>>]

\* the region of interest an earlier session saved
StoredRoi == <<<<50, 60>>, <<950, 60>>, <<50, 760>>, <<950, 760>>>>

\* the .roi file before select_roi: none, one written from a dialog's
\* points, or one written from points that were loaded from a file
RoiFiles ==
    {<<>>,
     <<save_roi_points([i \in 1..4 |-> <<IntNumber(StoredRoi[i][1]),
                                         IntNumber(StoredRoi[i][2])>>])>>,
     <<save_roi_points([i \in 1..4 |-> <<FloatNumber(StoredRoi[i][1]),
                                         FloatNumber(StoredRoi[i][2])>>])>>}

\* ROIManager.__init__; the dialog's original_height and original_width
\* stand for the manager's too (both are img_array.shape)
InitRoi ==
    /\ ui = "roi"
    /\ Constructed
    /\ CoordsClosed
    /\ RoiClosed
    /\ mgr_pc = "constructed"
    /\ mgr_points = <<>>
    /\ roi_file \in RoiFiles
    /\ select_roi_result = <<>>

\* the top of the while loop of select_roi, to the next question or dialog
LoopTop(state, shape) ==
    IF roi_file # <<>>
    THEN mgr_pc' = "prompt_use_existing_roi" /\ DialogLeft(state, shape)
    ELSE mgr_pc' = "get_new_roi" /\ OpenDialog(shape)

\* select_roi is called with an image
select_roi ==
    /\ mgr_pc = "constructed"
    /\ \E shape \in ImageShapes : LoopTop(roi_pc, shape)
    /\ UNCHANGED <<appVars, coordsVars, mgr_points, roi_file, select_roi_result>>

\* the answer to "Existing ROI file found. Use it?"
prompt_use_existing_roi ==
    /\ mgr_pc = "prompt_use_existing_roi"
    /\ \E yes \in BOOLEAN :
        IF yes
        THEN /\ mgr_points' = load_roi_points(roi_file[1])
             /\ mgr_pc' = "confirm_existing_roi"
             /\ UNCHANGED roiVars
        ELSE /\ mgr_pc' = "get_new_roi"
             /\ OpenDialog(<<original_height, original_width>>)
             /\ UNCHANGED mgr_points
    /\ UNCHANGED <<appVars, coordsVars, roi_file, select_roi_result>>

\* the answer to "Use this region of interest (ROI)?"
confirm_roi ==
    /\ mgr_pc \in {"confirm_existing_roi", "confirm_new_roi"}
    /\ \E yes \in BOOLEAN :
        IF yes
        THEN /\ roi_file' = <<save_roi_points(mgr_points)>>
             /\ select_roi_result' = <<TRUE>>
             /\ mgr_pc' = "returned"
             /\ UNCHANGED roiVars
        ELSE /\ IF mgr_pc = "confirm_existing_roi"
                THEN /\ mgr_pc' = "get_new_roi_instead"
                     /\ OpenDialog(<<original_height, original_width>>)
                ELSE LoopTop(roi_pc, <<original_height, original_width>>)
             /\ UNCHANGED <<roi_file, select_roi_result>>
    /\ UNCHANGED <<appVars, coordsVars, mgr_points>>

\* "Accept Selection": exec() gives Accepted and _get_new_roi takes the
\* points; select_roi goes on to the confirmation or, after an existing
\* region of interest was not confirmed, to the top of its loop
roi_accept ==
    /\ roi_pc = "open"
    /\ accept_button
    /\ mgr_points' = get_points
    /\ IF mgr_pc = "get_new_roi"
       THEN mgr_pc' = "confirm_new_roi"
            /\ DialogLeft("accepted", <<original_height, original_width>>)
       ELSE LoopTop("accepted", <<original_height, original_width>>)
    /\ UNCHANGED <<appVars, coordsVars, roi_file, select_roi_result>>

\* the dialog is closed without accepting: select_roi returns False
roi_reject ==
    /\ roi_pc = "open"
    /\ DialogLeft("rejected", <<original_height, original_width>>)
    /\ mgr_pc' = "returned"
    /\ select_roi_result' = <<FALSE>>
    /\ UNCHANGED <<appVars, coordsVars, mgr_points, roi_file>>

(***************************************************************************)
(* Specifications.                                                         *)
(***************************************************************************)
\* the main window and its digitization runs
Next ==
    \/ load_image
    \/ restart_click
    \/ input_parameters_open
    \/ dialog_edit(WorkflowInputs)
    \/ dialog_reject
    \/ input_parameters_accept
    \/ begin_digitization
    \/ stage_step
    \/ stage_return
    \/ confirm_answer

Spec == Init /\ [][Next]_vars

\* a CoordinateAssignmentDialog from its construction to its end
NextCoords ==
    \/ click_direction1
    \/ click_direction2
    \/ coords_accept
    \/ coords_reject

SpecCoords == InitCoords /\ [][NextCoords]_vars

\* ROIManager.select_roi with the ROISelectionDialogs it opens
NextRoi ==
    \/ select_roi
    \/ prompt_use_existing_roi
    \/ confirm_roi
    \/ activate_point_selection
    \/ on_click
    \/ retry
    \/ roi_accept
    \/ roi_reject

SpecRoi == InitRoi /\ [][NextRoi]_vars

\* the main window with the clicks that processEvents delivers inside a
\* stage: one click on Restart Process or Begin Digitization at a time,
\* dispatched by the first processEvents call of a stage in a run that was
\* not cancelled, the other buttons being clicked between runs; the user
\* leaves one valid set of parameters in the dialog
ReentrantInputs == {TextsOf(BaseValues)}

NextReentrant ==
    \/ outer = <<>> /\ load_image
    \/ outer = <<>> /\ restart_click
    \/ outer = <<>> /\ input_parameters_open
    \/ dialog_edit(ReentrantInputs)
    \/ input_parameters_accept
    \/ outer = <<>> /\ begin_digitization
    \/ stage_step
    \/ stage_return
    \/ confirm_answer
    \/ unit = 0 /\ cancel_stage = 0 /\ deliver_restart
    \/ unit = 0 /\ cancel_stage = 0 /\ deliver_begin
    \/ resume

SpecReentrant == Init /\ [][NextReentrant]_vars

\* the two parameter entry points over the same PARAMETERS folder
NextParams ==
    \/ load_image
    \/ restart_click
    \/ input_parameters_open
    \/ dialog_edit(AllInputs)
    \/ dialog_reject
    \/ input_parameters_accept
    \/ load_parameters
    \/ tab_edit(AllInputs)
    \/ save_parameters

SpecParams == InitParams /\ [][NextParams]_vars

\* a .par file left by something else than this program, lacking most keys
PartialFile ==
    [exists |-> TRUE, lines |-> << <<"DT", <<"4">> >>, <<"F1", <<"1", "1">> >> >>]

\* valid parameters as the user may type them, one with a leading zero, and
\* a set that is rejected
PersistInputs ==
    {TextsOf(Override(BaseValues, o)) : o \in ValidOverrides}
        \cup {[TextsOf(BaseValues) EXCEPT !.HE = <<"0", "5", "0">>],
              TextsOf(Override(BaseValues, << <<"DT", 0>> >>))}

\* either interface, in a work directory that may hold a partial .par file
InitPersist ==
    /\ ui \in {"window", "tabs"}
    /\ Built
    /\ DialogsClosed
    /\ parFile \in {[i \in Images |-> AbsentFile],
                    [i \in Images |-> IF i = "lineA" THEN PartialFile ELSE AbsentFile]}

\* saving and loading parameters through either entry point
NextPersist ==
    \/ load_image
    \/ input_parameters_open
    \/ dialog_edit(PersistInputs)
    \/ dialog_reject
    \/ input_parameters_accept
    \/ load_parameters
    \/ tab_edit(PersistInputs)
    \/ save_parameters

SpecPersist == InitPersist /\ [][NextPersist]_vars

(***************************************************************************)
(* Properties of the digitization run (specification Spec).                *)
(***************************************************************************)
\* the console shows the line
Reported(kind, text) ==
    \E i \in 1..Len(console) : console[i] = Line(kind, text)

\* the steps after the verification window
AfterConfirmation ==
    {"extract_amplitude", "process_amplitudes", "resample_data",
     "filter_data", "write_segy"}

\* the steps digitize_segy has called in this run
Called == {calls[i].stage : i \in 1..Len(calls)}

\* a file at SEGY/<base>.segy that this run put there
VisibleOutput == \E img \in Images : segyFile[img].run = run

\* C1: for every accepted parameter set, the uniform output time grid
\* new_times built in digitize_segy has floor((TWT_P3 - TWT_P1) / DT) + 1
\* samples
C1_SampleCount ==
    new_times # <<>> =>
        Len(new_times) = ((attrs[1].TWT_P3 - attrs[1].TWT_P1) \div attrs[1].DT) + 1

\* C2: when the verification window is not accepted, the run calls none of
\* extract_amplitude, process_amplitudes, resample_data, filter_data and
\* write_segy, writes no SEGY file and does not report success
C2_RejectionStopsRun ==
    result = "Rejected" =>
        /\ Called \cap AfterConfirmation = {}
        /\ ~VisibleOutput
        /\ tmpFile = NoTmp
        /\ ~Reported("success", "Digitization completed successfully!")
        /\ pc = "idle"

C2_Rejected ==
    /\ result = "Rejected"
    /\ pc = "idle"
    /\ Called = {"remove_timelines", "detect_baselines", "confirm"}
    /\ Reported("warning", "Process cancelled by user")

\* C3: after the baselines are rejected in the verification window, when
\* digitize_segy has returned the main window is in its initial state:
\* image_path and img_array None, points empty, the Parameters and Begin
\* Digitization buttons disabled, the Load Image button enabled
C3_RejectionResetsWindow ==
    (result = "Rejected" /\ pc = "idle") =>
        /\ image_path = None
        /\ img_array = None
        /\ points = <<>>
        /\ ~param_button
        /\ ~begin_digitization_button
        /\ load_button

\* C4: the steps of a run are called in the fixed order of Stages, each at
\* most once and only after every earlier step gave a result the run went
\* on with, and no step is passed a value that a later step produces
C4_ForwardOrder ==
    /\ Len(calls) <= Len(Stages)
    /\ \A i \in 1..Len(calls) :
          /\ calls[i].stage = Stages[i]
          /\ \A j \in 1..(i - 1) : Stages[j] \in returned
          /\ \A j \in i..Len(Stages) :
                calls[i].args \cap StageResults[Stages[j]] = {}
          /\ calls[i].args \subseteq
                WindowValues \cup StageLocals[Stages[i]]
                    \cup UNION {StageResults[Stages[j]] : j \in 1..(i - 1)}
    /\ returned \subseteq Called

C4_WholeRun ==
    /\ Len(calls) = Len(Stages)
    /\ returned = {Stages[k] : k \in 1..Len(Stages)}
    /\ pc = "idle"

\* C5: when a stage returns None (write_segy: False) the error is reported,
\* no later step is called, and the run neither reports success nor
\* displays results; a failed baseline detection is followed neither by the
\* verification window nor by amplitude extraction
C5_FailureIsFatal ==
    (failure.stage # 0 /\ failure.how = "none") =>
        /\ pc = "idle"
        /\ Len(calls) = failure.stage
        /\ Stages[failure.stage] \notin returned
        /\ console[Len(console)] =
              Line("error", FailureMessage[Stages[failure.stage]])
        /\ ~Reported("success", "Digitization completed successfully!")
        /\ ~Reported("header", "RESULTS DISPLAY")
        /\ ~VisibleOutput
        /\ failure.stage = StageIndex("detect_baselines") =>
              Called \cap {"confirm", "extract_amplitude"} = {}

C5_BaselineDetectionFailed ==
    /\ failure.stage = StageIndex("detect_baselines")
    /\ failure.how = "none"
    /\ Called = {"remove_timelines", "detect_baselines"}

\* the inequalities an accepted parameter set is to satisfy
Inequalities(pv) ==
    /\ pv.DT > 0
    /\ 0 < pv.F1 /\ pv.F1 < pv.F2 /\ pv.F2 < pv.F3 /\ pv.F3 < pv.F4
    /\ pv.TLT > 0 /\ pv.HLT > 0 /\ pv.HE > 0
    /\ 0 <= pv.BDB /\ pv.BDB < pv.BDE
    /\ 0 <= pv.BFT /\ pv.BFT <= 100
    /\ pv.TWT_P3 > pv.TWT_P1
    /\ pv.Trace_P1 >= 0 /\ pv.Trace_P2 >= 0 /\ pv.Trace_P3 >= 0

\* C6: whenever digitize_segy runs, the window's parameters satisfy every
\* validated inequality, and every step is called with such parameters; no
\* step is called with BDB >= BDE
C6_RunsOnValidParameters ==
    /\ attrs # <<>> => Inequalities(attrs[1])
    /\ begin_digitization_button => attrs # <<>>
    /\ Running => attrs # <<>>
    /\ \A i \in 1..Len(calls) :
          /\ calls[i].with # <<>>
          /\ Inequalities(calls[i].with[1])
          /\ calls[i].with[1].BDB < calls[i].with[1].BDE

C6_DetectionCalled ==
    /\ pc = "detect_baselines"
    /\ Len(calls) = 2
    /\ calls[2].with = attrs
    /\ parFile[image_path].exists

\* C9: the encode step is all-or-nothing: when write_segy returns False or
\* raises after it has started writing, the run leaves no file visible at
\* SEGY/<base>.segy; no file is visible there while it is being written, and
\* every file there is complete
C9_EncodeAllOrNothing ==
    /\ failure.stage = StageIndex("write_segy") =>
          /\ ~VisibleOutput
          /\ tmpFile = NoTmp
    /\ pc = "write_segy" => ~VisibleOutput
    /\ \A img \in Images : segyFile[img].run # 0 => segyFile[img].complete

C9_WriteFailedMidway ==
    /\ failure.stage = StageIndex("write_segy")
    /\ failure.how = "raise"
    /\ failure.at >= 1
    /\ pc = "idle"

\* C10: when Cancel is pressed while a stage of a run executes, that stage
\* is aborted and the run ends: no later step is called, write_segy is not
\* called and success is not reported; the request is not lost to a later
\* stage's ProgressStatusBar.start()
C10_CancelEndsRun ==
    cancel_stage # 0 =>
        /\ Len(calls) <= cancel_stage
        /\ "write_segy" \in Called => cancel_stage = StageIndex("write_segy")
        /\ ~Reported("success", "Digitization completed successfully!")

\* the steps that are passed the final baseline list
BaselineUsers == {"confirm", "extract_amplitude", "write_segy"}

\* C13: within one run the final baseline list shown in the verification
\* window is the list passed to extract_amplitude and to write_segy, so as
\* many traces are extracted and written as baselines were confirmed
C13_ConfirmedBaselinesUsed ==
    \A i \in 1..Len(calls) :
        calls[i].stage \in BaselineUsers =>
            /\ calls[i].baselines # <<>>
            /\ calls[i].baselines = calls[StageIndex("confirm")].baselines
            /\ Len(calls[i].baselines) = Len(baselines.final_baselines)

C13_WrittenWithConfirmed ==
    /\ Len(calls) = Len(Stages)
    /\ "write_segy" \in returned
    /\ calls[StageIndex("confirm")].baselines = <<2, 4, 6>>
    /\ calls[StageIndex("write_segy")].baselines = <<2, 4, 6>>

\* C15: the grid onto which the traces are resampled is
\* t_k = TWT_P1 + k * DT: it starts at TWT_P1, its spacing is DT, and every
\* grid time lies in [TWT_P1, TWT_P3]
C15_GridInsideRange ==
    new_times # <<>> =>
        \A i \in 1..Len(new_times) :
            /\ new_times[i] = attrs[1].TWT_P1 + (i - 1) * attrs[1].DT
            /\ attrs[1].TWT_P1 <= new_times[i]
            /\ new_times[i] <= attrs[1].TWT_P3

(***************************************************************************)
(* Properties of the parameter entry points (specification SpecParams).    *)
(***************************************************************************)
\* input_parameters has committed pv in this step
WindowCommits(pv) ==
    /\ parFile'[image_path] = [exists |-> TRUE, lines |-> ParFileOf(pv)]
    /\ attrs' = <<pv>>
    /\ begin_digitization_button'

\* save_parameters has committed pv in this step
TabCommits(pv) ==
    /\ parFile'[tab_image_path] = [exists |-> TRUE, lines |-> ParFileOf(pv)]
    /\ tab_parameters' = <<pv>>
    /\ n_emitted' = n_emitted + 1
    /\ next_button'

\* C7: input_parameters and ParametersTab.save_parameters accept a set of
\* integer parameters (write the .par file, store the values, enable the
\* next step) exactly when all the listed inequalities hold, and the two
\* agree on every set
C7_AcceptIffInequalities ==
    [][ /\ (input_parameters_accept /\ AllInt(dialog[1])) =>
              LET pv == ParamValues(dialog[1])
              IN  /\ WindowCommits(pv) <=> Inequalities(pv)
                  /\ (TabValueError(dialog[1]) = None) <=> Inequalities(pv)
        /\ (UNCHANGED tab_fields /\ save_parameters /\ tab_image_path # None
                /\ AllInt(tab_fields)) =>
              LET pv == ParamValues(tab_fields)
              IN  /\ TabCommits(pv) <=> Inequalities(pv)
                  /\ (ValueError(tab_fields) = None) <=> Inequalities(pv)
      ]_vars

C7_TabAcceptedEdge ==
    /\ tab_parameters # <<>>
    /\ tab_parameters[1].BFT = 100
    /\ next_button
    /\ parFile[tab_image_path] =
          [exists |-> TRUE, lines |-> ParFileOf(tab_parameters[1])]

\* the field the form shows under the label
FieldLabelled(params, label) ==
    CHOOSE k \in KeySet : \E i \in 1..Len(params) : params[i] = <<k, label>>

\* the condition an error message states: a message names a parameter by
\* its key, or in words; "Timeline thickness" is the label of a field of the
\* form
StatedCondition(params, msg, pv) ==
    CASE msg = "Sample rate must be > 0" -> pv.DT > 0
      [] msg = "F4 must be > F3" -> pv.F4 > pv.F3
      [] msg = "F3 must be > F2" -> pv.F3 > pv.F2
      [] msg = "F2 must be > F1" -> pv.F2 > pv.F1
      [] msg = "F1 must be > 0" -> pv.F1 > 0
      [] msg = "TWT_P3 must be > TWT_P1" -> pv.TWT_P3 > pv.TWT_P1
      [] msg = "BDB must be < BDE" -> pv.BDB < pv.BDE
      [] msg = "BDB must be >= 0" -> pv.BDB >= 0
      [] msg = "BFT must be between 0 and 100" -> pv.BFT >= 0 /\ pv.BFT <= 100
      [] msg = "Timeline thickness must be > 0" ->
            pv[FieldLabelled(params, "Timeline Thickness")] > 0
      [] msg = "Horizontal line thickness must be > 0" -> pv.HLT > 0
      [] msg = "Horizontal erosion must be > 0" -> pv.HE > 0
      [] msg = "Trace_P1 must be >= 0" -> pv.Trace_P1 >= 0
      [] msg = "Trace_P2 must be >= 0" -> pv.Trace_P2 >= 0
      [] msg = "Trace_P3 must be >= 0" -> pv.Trace_P3 >= 0
      [] OTHER -> TRUE

\* the message names what is wrong with the fields
NamesViolation(params, msg, fields) ==
    IF AllInt(fields)
    THEN ~StatedCondition(params, msg, ParamValues(fields))
    ELSE msg = InvalidLiteral

\* C8: when a validation fails or a field is no integer, nothing is
\* committed: the .par file, the stored values and the enabled state of
\* Begin Digitization / Next are unchanged, parametersSet is not emitted,
\* and the error message names the violated condition
C8_FailureCommitsNothing ==
    [][ /\ (input_parameters_accept /\ ValueError(dialog[1]) # None) =>
              /\ UNCHANGED <<parFile, attrs, begin_digitization_button>>
              /\ console' = <<Line("error", ValueError(dialog[1]))>>
              /\ NamesViolation(DETECTION_PARAMS, ValueError(dialog[1]), dialog[1])
        /\ (save_parameters /\ tab_image_path # None
                /\ TabValueError(tab_fields) # None) =>
              /\ UNCHANGED <<parFile, tab_parameters, n_emitted, next_button>>
              /\ tab_console' = <<Line("error", TabValueError(tab_fields))>>
              /\ NamesViolation(tab_DETECTION_PARAMS, TabValueError(tab_fields),
                                tab_fields)
      ]_vars

(***************************************************************************)
(* Properties of the runs under clicks delivered inside a stage            *)
(* (specification SpecReentrant).                                          *)
(***************************************************************************)
\* the activations of digitize_segy on the call stack
ActiveRuns == Len(outer) + (IF Running THEN 1 ELSE 0)

\* C11: at most one digitization run is active at any time: while
\* digitize_segy executes no second run starts, and no Restart resets the
\* window state (image, pixels, corner points) underneath it
C11_SingleActiveRun ==
    /\ ActiveRuns <= 1
    /\ ActiveRuns >= 1 =>
          /\ image_path # None
          /\ img_array # None
          /\ points = ROIQuad

(***************************************************************************)
(* Properties of CoordinateAssignmentDialog (specification SpecCoords).    *)
(***************************************************************************)
\* the least and the greatest CDP of the list
Least(l) == CHOOSE m \in {l[i] : i \in 1..Len(l)} : \A i \in 1..Len(l) : m <= l[i]
Greatest(l) == CHOOSE m \in {l[i] : i \in 1..Len(l)} : \A i \in 1..Len(l) : m >= l[i]

\* C12: for every non-empty CDP list, get_coordinates gives (min_cdp,
\* max_cdp) when the ascending option is the one chosen, (max_cdp, min_cdp)
\* when the descending option is, and the ascending pair when the dialog is
\* accepted without a click on an option
C12_CoordinatesFollowDirection ==
    coords_pc = "accepted" =>
        /\ (direction1_radio /\ ~direction2_radio) =>
              coordinates = << <<Least(cdp_range), Greatest(cdp_range)>> >>
        /\ (direction2_radio /\ ~direction1_radio) =>
              coordinates = << <<Greatest(cdp_range), Least(cdp_range)>> >>
        /\ ~radio_clicked =>
              coordinates = << <<Least(cdp_range), Greatest(cdp_range)>> >>

C12_DescendingAccepted ==
    /\ coords_pc = "accepted"
    /\ direction2_radio
    /\ cdp_range = <<2, 3, 1>>
    /\ coordinates = << <<3, 1>> >>

\* C18: after any sequence of clicks on the two options exactly one of them
\* is checked, and get_coordinates gives the direction of the option shown
\* as checked
C18_OneOptionChecked ==
    coords_pc # "closed" =>
        /\ direction1_radio # direction2_radio
        /\ direction1_radio => get_coordinates = <<min_cdp, max_cdp>>
        /\ direction2_radio => get_coordinates = <<max_cdp, min_cdp>>

(***************************************************************************)
(* Properties of the main window's buttons (specification Spec).           *)
(***************************************************************************)
\* C21: whenever Begin Digitization is enabled an image is loaded and the
\* parameters the window holds are the ones input_parameters accepted, and
\* saved, for that image
C21_BeginNeedsOwnParameters ==
    begin_digitization_button =>
        /\ image_path # None
        /\ attrs # <<>>
        /\ parFile[image_path].exists
        /\ parFile[image_path].lines = ParFileOf(attrs[1])

(***************************************************************************)
(* Properties of parameter persistence (specification SpecPersist).        *)
(***************************************************************************)
\* the file has a line for the key
HasKey(file, k) ==
    file.exists /\ \E i \in 1..Len(file.lines) : file.lines[i][1] = k

\* the text of the key's last line
TextOf(file, k) ==
    LET i == CHOOSE i \in 1..Len(file.lines) :
                /\ file.lines[i][1] = k
                /\ \A j \in (i + 1)..Len(file.lines) : file.lines[j][1] # k
    IN  file.lines[i][2]

\* the file holds every parameter, as f"{value}" of the int the field gave
HoldsValuesOf(file, fields) ==
    \A k \in KeySet :
        HasKey(file, k) /\ TextOf(file, k) = Str(ParseInt(fields[k]))

\* every field is filled from the file, or from the defaults where the file
\* has no line for it, and none is empty
FilledFrom(fields, file, defaults) ==
    \A k \in KeySet :
        /\ fields[k] # <<>>
        /\ fields[k] = IF HasKey(file, k) THEN TextOf(file, k) ELSE defaults[k]

\* C16: a successful save writes all 17 values to the image's .par file,
\* nothing else changes the files, and loading the parameters of an image
\* (load_parameters, input_parameters) fills all 17 fields with exactly the
\* values of its file, a field whose key the file lacks with its default,
\* leaving no field empty
C16_SaveLoadRoundTrip ==
    [][/\ (save_parameters /\ n_emitted' = n_emitted + 1) =>
              HoldsValuesOf(parFile'[tab_image_path], tab_fields)
       /\ (input_parameters_accept
              /\ console' = <<Line("success", "Parameters saved")>>) =>
              HoldsValuesOf(parFile'[image_path], dialog[1])
       /\ parFile' # parFile =>
              \/ save_parameters /\ n_emitted' = n_emitted + 1
              \/ input_parameters_accept
                    /\ console' = <<Line("success", "Parameters saved")>>
       /\ (load_parameters /\ tab_image_path' # None) =>
              FilledFrom(tab_fields', parFile[tab_image_path'], tab_default_params)
       /\ (input_parameters_open /\ dialog' # <<>>) =>
              FilledFrom(dialog'[1], parFile[image_path], default_params)
      ]_vars

\* the tab shows the values it saved before, loaded back from the file
C16_SavedValuesLoaded ==
    /\ ui = "tabs"
    /\ tab_parameters # <<>>
    /\ tab_image_path # None
    /\ tab_console = <<Line("info", "Loaded parameters")>>
    /\ parFile[tab_image_path].lines = ParFileOf(tab_parameters[1])
    /\ tab_fields = TextsOf(tab_parameters[1])
    /\ next_button = FALSE

(***************************************************************************)
(* Properties of ROISelectionDialog and ROIManager (specification SpecRoi).*)
(***************************************************************************)
\* C14: whenever the dialog holds four points, the fourth is (p2.x + p3.x -
\* p1.x, p3.y + p2.y - p1.y) of the first three points it holds now, also
\* after one of the three was selected again
C14_FourthPointCalculated ==
    (roi_pc = "open" /\ Len(dialog_points) = 4) =>
        dialog_points[4] =
            <<dialog_points[2][1] + dialog_points[3][1] - dialog_points[1][1],
              dialog_points[3][2] + dialog_points[2][2] - dialog_points[1][2]>>

\* C17: "Accept Selection" is enabled only if at least three points have
\* been selected and no point is being selected
C17_AcceptOnlyOutsideSelection ==
    (roi_pc = "open" /\ accept_button) =>
        /\ Len(dialog_points) >= 3
        /\ ~is_selection_mode

\* C19: select_roi returns True only on the answer Yes to the confirmation
\* of the points it holds; the .roi file is written in that step only and
\* then holds exactly those points; when the selection dialog is cancelled
\* select_roi returns False and the file stays as it was
C19_SavedIffConfirmed ==
    [][/\ (select_roi_result' = <<TRUE>> /\ select_roi_result = <<>>) =>
              /\ mgr_pc \in {"confirm_existing_roi", "confirm_new_roi"}
              /\ mgr_points' = mgr_points
              /\ roi_file' # <<>>
              /\ Values(load_roi_points(roi_file'[1])) = Values(mgr_points')
       /\ roi_file' # roi_file =>
              (select_roi_result' = <<TRUE>> /\ select_roi_result = <<>>)
       /\ (roi_pc = "open" /\ roi_pc' = "rejected") =>
              /\ select_roi_result' = <<FALSE>>
              /\ roi_file' = roi_file
      ]_vars

\* a region of interest picked in the dialog was confirmed and saved
C19_NewRoiSaved ==
    /\ select_roi_result = <<TRUE>>
    /\ roi_pc = "accepted"
    /\ Len(mgr_points) = 4
    /\ Values(mgr_points) # StoredRoi
    /\ roi_file = <<save_roi_points(mgr_points)>>

\* C20: when a selection dialog is accepted, the next question select_roi
\* asks is the confirmation of the region of interest just selected
C20_NewRoiOfferedNext ==
    [][(roi_pc = "open" /\ roi_pc' = "accepted") =>
           /\ mgr_pc' = "confirm_new_roi"
           /\ mgr_points' = get_points
      ]_vars

\* C22: selecting one of the three points again after all three were placed
\* completes normally: no handler raises for a point button that does not
\* exist, the chosen point is replaced by the confirmed click and the other
\* two stay, and the dialog is left out of selection mode with "Accept
\* Selection" enabled
C22_ReselectionCompletes ==
    [][(/\ roi_pc = "open" /\ roi_pc' = "open"
        /\ is_selection_mode /\ ~is_selection_mode'
        /\ Len(dialog_points) >= 3
        /\ dialog_points' # <<>>) =>
           /\ raised' = <<>>
           /\ \E xy \in ClickPositions :
                 dialog_points'[active_point_index[1] + 1] =
                     display_to_original(xy[1], xy[2])
           /\ \A i \in (1..3) \ {active_point_index[1] + 1} :
                 dialog_points'[i] = dialog_points[i]
           /\ accept_button'
      ]_vars

\* C23: every point get_points returns, the calculated fourth one included,
\* lies inside the original image
C23_PointsInsideImage ==
    roi_pc = "open" =>
        \A i \in 1..Len(get_points) :
            /\ 0 <= get_points[i][1].v
            /\ get_points[i][1].v <= original_width - 1
            /\ 0 <= get_points[i][2].v
            /\ get_points[i][2].v <= original_height - 1

\* C24: "Retry All", in whatever state it is pressed, leaves the dialog as
\* it opened: no points, not in selection mode, "Accept Selection"
\* disabled, the first point button alone enabled, the toolbar enabled
C24_RetryRestoresInitialState ==
    [][retry =>
           /\ dialog_points' = <<>>
           /\ active_point_index' = <<>>
           /\ ~is_selection_mode'
           /\ ~accept_button'
           /\ point_buttons' = <<TRUE, FALSE, FALSE>>
           /\ toolbar'
      ]_vars

=============================================================================
